---------------------------- MODULE Spec2Model ----------------------------
(***************************************************************************)
(* Model of cadbia/transform_betas: the exclusive percentile rank          *)
(* (excel_percentrank_exc), and the two pipelines that standardize every   *)
(* factor column, pool the z-scores, rank every cell against the pool and  *)
(* rescale it (main in transform_betas.py, process_dataframe and the       *)
(* upload handler in streamlit_app.py).                                    *)
(*                                                                         *)
(* Numbers.  The code computes in IEEE-754 binary64 and so does the model: *)
(* a float is a record [kind, s, man, exp]:                                *)
(*   kind = "nan"            NaN                                           *)
(*   kind = "inf"            +inf (s = 1) or -inf (s = -1)                 *)
(*   kind = "fin"            s * man * 2^exp, s in {-1, 0, 1}; man is the  *)
(*                           53-bit significand (2^52 <= man < 2^53), a    *)
(*                           little-endian sequence of limbs; 0 is s = 0   *)
(* Every operation (+, -, *, /, sqrt) computes the exact result and rounds  *)
(* it to nearest, ties to even, as the hardware does, so two z-scores that  *)
(* are equal as real numbers but were computed from different columns       *)
(* compare as the code's doubles do.  The values of the model stay far from *)
(* the overflow and subnormal ranges, which are left out; the sign of a     *)
(* zero is not kept (no operation of the code reads it).                    *)
(***************************************************************************)
EXTENDS Integers, Sequences, FiniteSets

VARIABLES
    pop,          \* rank check: the sorted population handed to the function
    x,            \* rank check: the query value
    res,          \* rank check: the value excel_percentrank_exc returned
    rpc,          \* rank check: "call" before the call, "done" after it
    entry,        \* pipeline: "main" (transform_betas.py) or "app" (streamlit_app.py)
    df,           \* pipeline: the table read, [ncols, nrows, betas]
    z,            \* pipeline: the standardized matrix (a sequence of columns)
    sorted_flat,  \* pipeline: the pooled, sorted z-scores
    transformed,  \* pipeline: the transformed matrix
    out,          \* pipeline: the tables the run wrote (main) or offered for download (app)
    pc            \* pipeline: "start", "read_error", "loaded", "validated", "failed", "done"

vars == <<pop, x, res, rpc, entry, df, z, sorted_flat, transformed, out, pc>>
rankVars == <<pop, x, res, rpc>>
pipeVars == <<entry, df, z, sorted_flat, transformed, out, pc>>

---------------------------------------------------------------------------
(* Bounds of the model *)

\* longest population handed to the rank function
MaxLen == 5
\* population values are the integers -MaxAbs..MaxAbs, queries the halves around them
MaxAbs == 2
\* most numeric cells (rows * factor columns) of an input table
MaxCells == 6
\* a raw beta is missing, a whole number in 0..MaxVal, or 0.1
MaxVal == 1

---------------------------------------------------------------------------
(* Natural numbers of any size: little-endian sequences of limbs, no leading
   zero limb, <<>> for 0 *)

\* bits per limb: a product of two limbs fits a machine integer of the checker
LimbBits == 15

LimbBase == 32768

Abs(i) == IF i < 0 THEN -i ELSE i

Sign(i) == IF i < 0 THEN -1 ELSE IF i > 0 THEN 1 ELSE 0

RECURSIVE TwoTo(_)
TwoTo(k) == IF k = 0 THEN 1 ELSE 2 * TwoTo(k - 1)

\* 2^k for 0 <= k <= LimbBits, tabulated
PowersOfTwo == [k \in 0..LimbBits |-> TwoTo(k)]

Pow2(k) == PowersOfTwo[k]

\* the number of bits of n >= 0
RECURSIVE IntBitLen(_)
IntBitLen(n) == IF n = 0 THEN 0 ELSE 1 + IntBitLen(n \div 2)

RECURSIVE BNorm(_)
BNorm(b) ==
    IF b = <<>> THEN <<>>
    ELSE IF b[Len(b)] = 0 THEN BNorm(SubSeq(b, 1, Len(b) - 1)) ELSE b

RECURSIVE FromNat(_)
FromNat(n) == IF n = 0 THEN <<>> ELSE <<n % LimbBase>> \o FromNat(n \div LimbBase)

Rest(b) == IF b = <<>> THEN <<>> ELSE Tail(b)

Low(b) == IF b = <<>> THEN 0 ELSE Head(b)

\* a + b + c, c a carry of 0 or 1
RECURSIVE BAdd(_, _, _)
BAdd(a, b, c) ==
    IF a = <<>> /\ b = <<>> THEN (IF c = 0 THEN <<>> ELSE <<c>>)
    ELSE LET t == Low(a) + Low(b) + c
         IN  <<t % LimbBase>> \o BAdd(Rest(a), Rest(b), t \div LimbBase)

RECURSIVE BSubRaw(_, _, _)
BSubRaw(a, b, c) ==
    IF a = <<>> THEN <<>>
    ELSE LET t == Head(a) - Low(b) - c
         IN  IF t < 0 THEN <<t + LimbBase>> \o BSubRaw(Tail(a), Rest(b), 1)
             ELSE <<t>> \o BSubRaw(Tail(a), Rest(b), 0)

\* a - b for a >= b
BSub(a, b) == BNorm(BSubRaw(a, b, 0))

RECURSIVE BCmpFrom(_, _, _)
BCmpFrom(a, b, i) ==
    IF i = 0 THEN 0
    ELSE IF a[i] # b[i] THEN Sign(a[i] - b[i])
    ELSE BCmpFrom(a, b, i - 1)

\* -1, 0, 1 as a < b, a = b, a > b
BCmp(a, b) ==
    IF Len(a) # Len(b) THEN Sign(Len(a) - Len(b)) ELSE BCmpFrom(a, b, Len(a))

\* a * k + c for 0 <= k <= LimbBase, 0 <= c < LimbBase
RECURSIVE BMulSmall(_, _, _)
BMulSmall(a, k, c) ==
    IF a = <<>> THEN (IF c = 0 THEN <<>> ELSE <<c>>)
    ELSE LET p == Head(a) * k + c
         IN  <<p % LimbBase>> \o BMulSmall(Tail(a), k, p \div LimbBase)

RECURSIVE BMul(_, _)
BMul(a, b) ==
    IF a = <<>> \/ b = <<>> THEN <<>>
    ELSE LET hi == BMul(a, Tail(b))
             up == IF hi = <<>> THEN <<>> ELSE <<0>> \o hi
         IN  IF Head(b) = 0 THEN up ELSE BAdd(BMulSmall(a, Head(b), 0), up, 0)

\* quotient (with leading zero limbs) and remainder of a by 0 < k <= LimbBase
RECURSIVE BDivSmall(_, _)
BDivSmall(a, k) ==
    IF a = <<>> THEN [q |-> <<>>, r |-> 0]
    ELSE LET hi == BDivSmall(Tail(a), k)
             cur == hi.r * LimbBase + Head(a)
         IN  [q |-> <<cur \div k>> \o hi.q, r |-> cur % k]

Zeros(n) == [i \in 1..n |-> 0]

\* a * 2^sh
Shl(a, sh) ==
    IF a = <<>> \/ sh = 0 THEN a
    ELSE IF sh % LimbBits = 0 THEN Zeros(sh \div LimbBits) \o a
    ELSE BMulSmall(Zeros(sh \div LimbBits) \o a, Pow2(sh % LimbBits), 0)

\* a \div 2^sh
Shr(a, sh) ==
    LET d == sh \div LimbBits IN
    IF Len(a) <= d THEN <<>>
    ELSE IF sh % LimbBits = 0 THEN SubSeq(a, d + 1, Len(a))
    ELSE BNorm(BDivSmall(SubSeq(a, d + 1, Len(a)), Pow2(sh % LimbBits)).q)

BitLen(a) ==
    IF a = <<>> THEN 0 ELSE LimbBits * (Len(a) - 1) + IntBitLen(a[Len(a)])

\* long division: the quotient digit estimated from below is raised until the
\* remainder is under the divisor
RECURSIVE Correct(_, _, _)
Correct(r, q, d) ==
    IF BCmp(r, d) >= 0 THEN Correct(BSub(r, d), q + 1, d) ELSE [q |-> q, r |-> r]

\* one digit of the quotient: cur \div d for cur < d * LimbBase, raised from an
\* estimate q0 that is not above it
DigitFrom(cur, d, q0) == Correct(BSub(cur, BMulSmall(d, q0, 0)), q0, d)

\* the estimate is the two top limbs of cur over the top limb of d plus one;
\* the top limb of d is at least LimbBase / 2
Digit(cur, d) ==
    LET L == Len(d) IN
    IF Len(cur) < L THEN [q |-> 0, r |-> cur]
    ELSE DigitFrom(cur, d,
            (cur[L] + (IF Len(cur) > L THEN cur[L + 1] * LimbBase ELSE 0))
                \div (d[L] + 1))

\* the digit g put under the quotient hi.q, its remainder kept
PutDigit(hi, g) == [q |-> <<g.q>> \o hi.q, r |-> g.r]

RECURSIVE LongDiv(_, _)
LongDiv(a, d) ==
    IF a = <<>> THEN [q |-> <<>>, r |-> <<>>]
    ELSE LET hi == LongDiv(Tail(a), d)
         IN  PutDigit(hi, Digit(BNorm(<<Head(a)>> \o hi.r), d))

Quotient(w) == [q |-> BNorm(w.q), exact |-> w.r = <<>>]

\* a \div d for d > 0, and whether the division is exact
BDivMod(a, d) ==
    LET sh == LimbBits - IntBitLen(d[Len(d)])
    IN  Quotient(LongDiv(Shl(a, sh), Shl(d, sh)))

\* a \div k for 0 < k < LimbBase, and whether the division is exact
BDivModSmall(a, k) ==
    LET w == BDivSmall(a, k) IN [q |-> BNorm(w.q), exact |-> w.r = 0]

\* Newton's iteration from above: the integer square root
RECURSIVE IntSqrtFrom(_, _)
IntSqrtFrom(n, r) ==
    LET r1 == (r + n \div r) \div 2 IN IF r1 >= r THEN r ELSE IntSqrtFrom(n, r1)

IntSqrt(n) == IF n = 0 THEN 0 ELSE IntSqrtFrom(n, TwoTo((IntBitLen(n) + 1) \div 2))

\* Newton's iteration from r >= sqrt(a), down to the integer square root
RECURSIVE BSqrtFrom(_, _)
BSqrtFrom(a, r) ==
    IF BCmp(BMul(r, r), a) <= 0 THEN r
    ELSE BSqrtFrom(a, Shr(BAdd(r, BDivMod(a, r).q, 0), 1))

\* the integer square root of a, started from the root of its top half
RECURSIVE BSqrt(_)
BSqrt(a) ==
    IF Len(a) <= 2
    THEN FromNat(IntSqrt(Low(a) + LimbBase * Low(Rest(a))))
    ELSE LET j == BitLen(a) \div 4
         IN  BSqrtFrom(a, Shl(BAdd(BSqrt(Shr(a, 2 * j)), <<1>>, 0), j))

---------------------------------------------------------------------------
(* IEEE-754 binary64, round to nearest, ties to even *)

\* bits of the significand
MantissaBits == 53

\* extra quotient and root bits computed before rounding
GuardBits == 3

NaN == [kind |-> "nan", s |-> 0, man |-> <<>>, exp |-> 0]

Zero == [kind |-> "fin", s |-> 0, man |-> <<>>, exp |-> 0]

Inf(s) == [kind |-> "inf", s |-> s, man |-> <<>>, exp |-> 0]

\* the double s * n * 2^e of an n that needs sh more bits to fill the
\* significand
Exact(s, n, e, sh) ==
    [kind |-> "fin", s |-> s, man |-> Shl(n, sh), exp |-> e - sh]

\* whether the sh >= 1 low bits of n round up: the first of them is set and so
\* is a lower one, or the sticky bit, or the last bit kept (ties to even)
RoundsUp(n, sh, sticky, odd) ==
    LET limb == n[(sh - 1) \div LimbBits + 1]
        p == Pow2((sh - 1) % LimbBits)
    IN  /\ (limb \div p) % 2 = 1
        /\ \/ limb % p # 0
           \/ \E i \in 1..((sh - 1) \div LimbBits) : n[i] # 0
           \/ sticky
           \/ odd

\* s * q * 2^e, q of MantissaBits bits or, after a carry, 2^MantissaBits
Renormalized(s, q, e) ==
    IF BitLen(q) > MantissaBits
    THEN [kind |-> "fin", s |-> s, man |-> Shr(q, 1), exp |-> e + 1]
    ELSE [kind |-> "fin", s |-> s, man |-> q, exp |-> e]

\* n rounded to its MantissaBits top bits q = n \div 2^sh
Nearest(s, n, e, sticky, sh, q) ==
    Renormalized(s,
                 IF RoundsUp(n, sh, sticky, q[1] % 2 = 1) THEN BAdd(q, <<1>>, 0) ELSE q,
                 e + sh)

RoundBits(s, n, e, sticky, bl) ==
    IF bl = 0 THEN Zero
    ELSE IF bl <= MantissaBits THEN Exact(s, n, e, MantissaBits - bl)
    ELSE Nearest(s, n, e, sticky, bl - MantissaBits, Shr(n, bl - MantissaBits))

\* the double nearest to s * (n + f) * 2^e, where 0 <= f < 1 and f > 0 exactly
\* when sticky; a sticky n has more than MantissaBits + 1 bits
Round(s, n, e, sticky) == RoundBits(s, n, e, sticky, BitLen(n))

\* the double s * n * 2^e of an n of at most MantissaBits bits
Normal(s, n, e) ==
    IF n = <<>> THEN Zero ELSE Exact(s, n, e, MantissaBits - BitLen(n))

\* float(v) of an integer v
FromInt(v) == Normal(Sign(v), FromNat(Abs(v)), 0)

\* the double h / 2
Half(h) == Normal(Sign(h), FromNat(Abs(h)), -1)

isnan(v) == v.kind = "nan"

Neg(v) == [v EXCEPT !.s = -v.s]

\* the order of |u| and |v|, both finite
MagCmp(u, v) ==
    IF u.s = 0 \/ v.s = 0 THEN Abs(u.s) - Abs(v.s)
    ELSE IF u.exp # v.exp THEN Sign(u.exp - v.exp)
    ELSE BCmp(u.man, v.man)

\* -1, 0, 1 as u < v, u == v, u > v, both finite
FinCmp(u, v) ==
    IF u.s # v.s THEN Sign(u.s - v.s)
    ELSE u.s * MagCmp(u, v)

\* float comparison  u < v  (false when either is NaN)
Lt(u, v) ==
    CASE u.kind = "fin" /\ v.kind = "fin" -> FinCmp(u, v) < 0
      [] u.kind = "inf" /\ v.kind = "fin" -> u.s < 0
      [] u.kind = "fin" /\ v.kind = "inf" -> v.s > 0
      [] u.kind = "inf" /\ v.kind = "inf" -> u.s < 0 /\ v.s > 0
      [] OTHER -> FALSE

\* float comparison  u == v  (false when either is NaN)
Eq(u, v) ==
    CASE u.kind = "fin" /\ v.kind = "fin" -> FinCmp(u, v) = 0
      [] u.kind = "inf" /\ v.kind = "inf" -> u.s = v.s
      [] OTHER -> FALSE

Gt(u, v) == Lt(v, u)

Le(u, v) == Lt(u, v) \/ Eq(u, v)

\* the rounded sum of s * a * 2^e and t * b * 2^e, c the order of a and b
AddSigned(s, a, t, b, e, c) ==
    Round(IF s = t \/ c >= 0 THEN s ELSE t,
          IF s = t THEN BAdd(a, b, 0)
          ELSE BSub(IF c >= 0 THEN a ELSE b, IF c >= 0 THEN b ELSE a),
          e, FALSE)

AddAligned(s, a, t, b, e) == AddSigned(s, a, t, b, e, BCmp(a, b))

\* u + v of two finite doubles: the exact sum, rounded
FAddFin(u, v) ==
    IF u.s = 0 THEN v
    ELSE IF v.s = 0 THEN u
    ELSE LET e == IF u.exp < v.exp THEN u.exp ELSE v.exp
         IN  AddAligned(u.s, Shl(u.man, u.exp - e), v.s, Shl(v.man, v.exp - e), e)

\* u + v
FAdd(u, v) ==
    IF isnan(u) \/ isnan(v) THEN NaN
    ELSE IF u.kind = "inf" /\ v.kind = "inf" THEN (IF u.s = v.s THEN u ELSE NaN)
    ELSE IF u.kind = "inf" THEN u
    ELSE IF v.kind = "inf" THEN v
    ELSE FAddFin(u, v)

\* u - v
FSub(u, v) == FAdd(u, Neg(v))

\* u * v
FMul(u, v) ==
    IF isnan(u) \/ isnan(v) THEN NaN
    ELSE IF u.kind = "inf" \/ v.kind = "inf"
    THEN (IF u.s * v.s = 0 THEN NaN ELSE Inf(u.s * v.s))
    ELSE IF u.s = 0 \/ v.s = 0 THEN Zero
    ELSE Round(u.s * v.s, BMul(u.man, v.man), u.exp + v.exp, FALSE)

\* the divisor is its top limb times a power of two
OneLimb(d) == \A i \in 1..(Len(d) - 1) : d[i] = 0

RoundQuotient(s, d, e) == Round(s, d.q, e, ~d.exact)

\* u / v of two nonzero finite doubles: the quotient of the significands to
\* GuardBits bits beyond the significand, rounded; a one-limb divisor by short
\* division
FDivFin(u, v, short) ==
    LET k == IF short THEN LimbBits + GuardBits ELSE MantissaBits + GuardBits
        t == IF short THEN LimbBits * (Len(v.man) - 1) ELSE 0
    IN  RoundQuotient(u.s * v.s,
                      IF short THEN BDivModSmall(Shl(u.man, k), v.man[Len(v.man)])
                      ELSE BDivMod(Shl(u.man, k), v.man),
                      u.exp - v.exp - t - k)

\* u / v as numpy divides: x / 0 is +-inf, 0 / 0 is NaN
FDiv(u, v) ==
    IF isnan(u) \/ isnan(v) THEN NaN
    ELSE IF u.kind = "inf"
    THEN (IF v.kind = "inf" THEN NaN ELSE Inf(u.s * (IF v.s < 0 THEN -1 ELSE 1)))
    ELSE IF v.kind = "inf" THEN Zero
    ELSE IF v.s = 0 THEN (IF u.s = 0 THEN NaN ELSE Inf(u.s))
    ELSE IF u.s = 0 THEN Zero
    ELSE FDivFin(u, v, OneLimb(v.man))

\* the root r of a, the integer square root as the significand and whether it
\* is inexact as the sticky bit
RoundRoot(a, r, e) == Round(1, r, e, BMul(r, r) # a)

RootOf(a, e) == RoundRoot(a, BSqrt(a), e)

\* sqrt(u): the significand is scaled by an even power of two and the integer
\* root rounded
FSqrt(u) ==
    IF isnan(u) THEN NaN
    ELSE IF u.kind = "inf" THEN (IF u.s > 0 THEN u ELSE NaN)
    ELSE IF u.s < 0 THEN NaN
    ELSE IF u.s = 0 THEN Zero
    ELSE LET k == MantissaBits + 2 * GuardBits - 1 + (u.exp % 2)
         IN  RootOf(Shl(u.man, k), (u.exp - k) \div 2)

---------------------------------------------------------------------------
(* excel_percentrank_exc *)

\* sorted_arr[i], 0-based
At(sorted_arr, i) == sorted_arr[i + 1]

\* sorted_arr[-1]
Last(sorted_arr) == sorted_arr[Len(sorted_arr)]

\* a binary search that inserts v before the elements equal to it (side="left")
RECURSIVE bisect_left(_, _, _, _)
bisect_left(sorted_arr, v, lo, hi) ==
    IF lo >= hi THEN lo
    ELSE LET mid == (lo + hi) \div 2
         IN  IF Lt(At(sorted_arr, mid), v)
             THEN bisect_left(sorted_arr, v, mid + 1, hi)
             ELSE bisect_left(sorted_arr, v, lo, mid)

searchsorted_left(sorted_arr, v) == bisect_left(sorted_arr, v, 0, Len(sorted_arr))

\* the binary search of np.searchsorted(..., side="right")
RECURSIVE bisect_right(_, _, _, _)
bisect_right(sorted_arr, v, lo, hi) ==
    IF lo >= hi THEN lo
    ELSE LET mid == (lo + hi) \div 2
         IN  IF Lt(v, At(sorted_arr, mid))
             THEN bisect_right(sorted_arr, v, lo, mid)
             ELSE bisect_right(sorted_arr, v, mid + 1, hi)

\* np.searchsorted(sorted_arr, v, side="right"): the 0-based insertion index
\* after the last element <= v
searchsorted(sorted_arr, v) == bisect_right(sorted_arr, v, 0, Len(sorted_arr))

\* line 118: fraction = (x - xk) / (xk1 - xk)
interpolate(v, xk, xk1) == FDiv(FSub(v, xk), FSub(xk1, xk))

\* the exception raised by an index past the end of sorted_arr
IndexError == [kind |-> "IndexError"]

\* lines 116-120: xk, xk1 = sorted_arr[k], sorted_arr[k+1], which raises
\* IndexError when k + 1 is past the last index, then k + fraction, between
\* positions k and k + 1
interior(sorted_arr, v, k) ==
    IF k + 1 > Len(sorted_arr) - 1 THEN IndexError
    ELSE FAdd(FromInt(k), interpolate(v, At(sorted_arr, k), At(sorted_arr, k + 1)))

\* lines 110, 112, 120: the value returned is a position over n + 1, the
\* position 1, n or k + fraction; an exception raised on the way leaves the
\* function instead
rank_at(position, n) ==
    IF position = IndexError THEN IndexError
    ELSE FDiv(position, FromInt(n + 1))

\* the interpolation branch with the maximum tested before the minimum
rank_max_first(sorted_arr, v) ==
    rank_at(IF Eq(v, Last(sorted_arr)) THEN FromInt(Len(sorted_arr))
            ELSE IF Eq(v, At(sorted_arr, 0)) THEN FromInt(1)
            ELSE interior(sorted_arr, v, searchsorted(sorted_arr, v) - 1),
            Len(sorted_arr))

\* the minimum ranked by the interpolation formula, k = 0 and fraction = 0
rank_min_zero(sorted_arr, v) ==
    rank_at(IF Eq(v, At(sorted_arr, 0)) THEN FromInt(0)
            ELSE IF Eq(v, Last(sorted_arr)) THEN FromInt(Len(sorted_arr))
            ELSE interior(sorted_arr, v, searchsorted(sorted_arr, v) - 1),
            Len(sorted_arr))

\* lines 108-120: the boundary cases and the interpolation, for n >= 2 and
\* sorted_arr[0] <= v <= sorted_arr[-1]: 1 / (n + 1) at the minimum,
\* n / (n + 1) at the maximum, else (k + fraction) / (n + 1) with
\* k = searchsorted(sorted_arr, v, side="right") - 1. A NaN query compares false
\* with everything: it passes both boundary tests, the search puts it after the
\* last element and sorted_arr[k+1] raises IndexError
rank_in_range(sorted_arr, v) ==
    rank_at(IF Eq(v, At(sorted_arr, 0)) THEN FromInt(1)
            ELSE IF Eq(v, Last(sorted_arr)) THEN FromInt(Len(sorted_arr))
            ELSE interior(sorted_arr, v, searchsorted(sorted_arr, v) - 1),
            Len(sorted_arr))

\* line 105: x < sorted_arr[0] or x > sorted_arr[-1]
out_of_range(sorted_arr, v) ==
    Lt(v, At(sorted_arr, 0)) \/ Gt(v, Last(sorted_arr))

excel_percentrank_exc(sorted_arr, v) ==
    LET n == Len(sorted_arr) IN
    IF n < 2 THEN NaN
    ELSE IF out_of_range(sorted_arr, v) THEN NaN
    ELSE rank_in_range(sorted_arr, v)

---------------------------------------------------------------------------
(* The rank function on its own: every ascending population, every query *)

\* the queries: the multiples of 0.5 around the population's values, and NaN
Queries == { Half(h) : h \in -(2 * MaxAbs + 1)..(2 * MaxAbs + 1) } \cup {NaN}

\* the ascending sequences of n integers of -MaxAbs..MaxAbs
AscendingInts(n) ==
    { a \in [1..n -> -MaxAbs..MaxAbs] : \A i \in 1..(n - 1) : a[i] <= a[i + 1] }

Populations ==
    UNION { { [i \in 1..n |-> FromInt(a[i])] : a \in AscendingInts(n) } : n \in 0..MaxLen }

NoDf == [ncols |-> 0, nrows |-> 0, betas |-> <<>>]

PipeIdle ==
    /\ entry = "none"
    /\ df = NoDf
    /\ z = <<>>
    /\ sorted_flat = <<>>
    /\ transformed = <<>>
    /\ out = <<>>
    /\ pc = "idle"

InitRank ==
    /\ pop \in Populations
    /\ x \in Queries
    /\ res = NaN
    /\ rpc = "call"
    /\ PipeIdle

RankCall ==
    /\ rpc = "call"
    /\ res' = excel_percentrank_exc(pop, x)
    /\ rpc' = "done"
    /\ UNCHANGED <<pop, x>>
    /\ UNCHANGED pipeVars

NextRank == RankCall

SpecRank == InitRank /\ [][NextRank]_vars

---------------------------------------------------------------------------
(* The pipeline: standardize, pool, rank, rescale *)

\* meta = df.iloc[:, :2], betas_raw = df.iloc[:, 2:]
MetaCols == 2

\* streamlit_app.py: df.shape[1] < 3 is rejected
MinCols == 3

\* p_exc = rank * 100.0
PercentScale == 100

\* (p_exc - 50.5) / 34.0, the offset as 101 / 2
OffsetTwice == 101

RescaleDivisor == 34

\* the indices of the defined (non-NaN) entries of a column
Defined(vals) == { i \in 1..Len(vals) : ~isnan(vals[i]) }

\* np.sum of a[1..i]: the elements added one after the other (numpy sums
\* fewer than 8 elements in order)
RECURSIVE SumTo(_, _)
SumTo(a, i) == IF i = 0 THEN Zero ELSE FAdd(SumTo(a, i - 1), a[i])

np_sum(a) == SumTo(a, Len(a))

\* _replace_nan(a, 0): the column with its NaNs replaced by 0
replace_nan(vals) == [i \in 1..Len(vals) |-> IF isnan(vals[i]) THEN Zero ELSE vals[i]]

\* the sum of the defined entries over their count cnt, NaN (0 / 0) when
\* there is none
mean_of(vals, cnt) == FDiv(np_sum(replace_nan(vals)), FromInt(cnt))

\* np.nanmean(vals)
nanmean(vals) == mean_of(vals, Cardinality(Defined(vals)))

\* the deviations from avg, 0 at the NaNs
deviations(vals, avg) ==
    [i \in 1..Len(vals) |-> IF isnan(vals[i]) THEN Zero ELSE FSub(vals[i], avg)]

square(d) == FMul(d, d)

squared(dev) == [i \in 1..Len(dev) |-> square(dev[i])]

\* np.nanvar: the deviations from the mean squared and summed, over
\* (cnt - ddof), NaN when cnt - ddof <= 0
nanvar(vals, cnt, ddof) ==
    IF cnt - ddof <= 0 THEN NaN
    ELSE FDiv(np_sum(squared(deviations(vals, mean_of(vals, cnt)))), FromInt(cnt - ddof))

\* np.nanstd(vals, ddof): the square root of the variance
nanstd(vals, ddof) == FSqrt(nanvar(vals, Cardinality(Defined(vals)), ddof))

\* the population standard deviation, ddof = 0
population_std(vals) == nanstd(vals, 0)

\* sigma = np.nanstd(vals, ddof=1)
sample_std(vals) == nanstd(vals, 1)

\* one element of (vals - mu) / sigma: NaN propagates, 0/0 is NaN, d/0 is +-inf
zscore(v, mu, sigma) == FDiv(FSub(v, mu), sigma)

\* (vals - mu) / sigma
standardized(vals, mu, sigma) == [i \in 1..Len(vals) |-> zscore(vals[i], mu, sigma)]

\* transform_betas.py, body of the standardization loop for one column
standardize_main(vals) == standardized(vals, nanmean(vals), sample_std(vals))

\* streamlit_app.py lines 79-82: a zero or NaN sigma blanks the column
guarded(vals, mu, sigma) ==
    IF Eq(sigma, Zero) \/ isnan(sigma)
    THEN [i \in 1..Len(vals) |-> NaN]
    ELSE standardized(vals, mu, sigma)

\* streamlit_app.py, body of the standardization loop for one column
standardize_app(vals) == guarded(vals, nanmean(vals), sample_std(vals))

\* z.values.flatten(): row-major, every row's cells in column order
flatten(zm, nrows) ==
    LET C == Len(zm)
    IN  [j \in 1..(nrows * C) |-> zm[((j - 1) % C) + 1][((j - 1) \div C) + 1]]

\* flat[~np.isnan(flat)]
dropnan(flat) == SelectSeq(flat, LAMBDA v : ~isnan(v))

\* one element put in its place in an ascending sequence
RECURSIVE insert(_, _)
insert(a, v) ==
    IF a = <<>> THEN <<v>>
    ELSE IF Lt(v, Head(a)) THEN <<v>> \o a
    ELSE <<Head(a)>> \o insert(Tail(a), v)

\* np.sort(flat)
RECURSIVE np_sort(_)
np_sort(flat) ==
    IF flat = <<>> THEN <<>> ELSE insert(np_sort(Tail(flat)), Head(flat))

\* 100.0
Hundred == FromInt(PercentScale)

\* 50.5
Offset == Half(OffsetTwice)

\* 34.0
Divisor == FromInt(RescaleDivisor)

\* (rank * 100.0 - 50.5) / 34.0
rescale(p) == FDiv(FSub(FMul(p, Hundred), Offset), Divisor)

\* transform_betas.py: transform_exc
transform_exc_main(val, sf) ==
    IF isnan(val) THEN NaN
    ELSE rescale(excel_percentrank_exc(sf, val))

\* streamlit_app.py: transform_exc
transform_exc_app(val, sf) ==
    IF isnan(val) \/ Len(sf) < 2 THEN NaN
    ELSE rescale(excel_percentrank_exc(sf, val))

\* the cell 0.1: the double nearest to one tenth, as pd.to_numeric parses it
Tenth == FDiv(FromInt(1), FromInt(10))

\* the numeric block of a table: its columns after the two metadata columns,
\* each cell NaN (pd.to_numeric, errors="coerce"), a whole number or 0.1, a
\* number that is not a binary fraction
Cells == {NaN} \cup { FromInt(v) : v \in 0..MaxVal } \cup {Tenth}

Shapes == { sh \in (1..MaxCells) \X (1..MaxCells) : sh[1] * sh[2] <= MaxCells }

\* a table of sh[1] rows with sh[2] factor columns after the metadata columns
Table(sh, b) == [ncols |-> MetaCols + sh[2], nrows |-> sh[1], betas |-> b]

\* a table of r rows with no factor column
NarrowTable(c, r) == [ncols |-> c, nrows |-> r, betas |-> <<>>]

RankIdle ==
    /\ pop = <<>>
    /\ x = NaN
    /\ res = NaN
    /\ rpc = "idle"

Init ==
    /\ entry \in {"main", "app"}
    /\ pc = "start"
    /\ df = NoDf
    /\ z = <<>>
    /\ sorted_flat = <<>>
    /\ transformed = <<>>
    /\ out = <<>>
    /\ RankIdle

\* _read_input (main) / pd.read_csv, pd.read_excel (the upload handler) return
\* a table
Read ==
    /\ pc = "start"
    /\ \/ \E sh \in Shapes : \E b \in [1..sh[2] -> [1..sh[1] -> Cells]] : df' = Table(sh, b)
       \/ \E c \in 1..MetaCols : \E r \in 1..MaxCells : df' = NarrowTable(c, r)
    /\ pc' = "loaded"
    /\ UNCHANGED <<entry, z, sorted_flat, transformed, out>>
    /\ UNCHANGED rankVars

\* the read raises: a missing file, an unsupported extension, a file pandas
\* cannot parse.  main ends with the exception, the upload handler reports it
\* (st.error); no table is held and nothing is computed or written
ReadError ==
    /\ pc = "start"
    /\ pc' = "read_error"
    /\ UNCHANGED <<entry, df, z, sorted_flat, transformed, out>>
    /\ UNCHANGED rankVars

\* main, from the split of the table to the two tables written
MainRun ==
    /\ entry = "main"
    /\ pc = "loaded"
    /\ z' = [c \in 1..Len(df.betas) |-> standardize_main(df.betas[c])]
    /\ sorted_flat' = np_sort(dropnan(flatten(z', df.nrows)))
    /\ transformed' = [c \in 1..Len(z') |->
                        [r \in 1..df.nrows |-> transform_exc_main(z'[c][r], sorted_flat')]]
    /\ out' = <<z', transformed'>>
    /\ pc' = "done"
    /\ UNCHANGED <<entry, df>>
    /\ UNCHANGED rankVars

\* the upload handler's early validation: st.error and st.stop under 3 columns
AppValidate ==
    /\ entry = "app"
    /\ pc = "loaded"
    /\ pc' = IF df.ncols < MinCols THEN "failed" ELSE "validated"
    /\ UNCHANGED <<entry, df, z, sorted_flat, transformed, out>>
    /\ UNCHANGED rankVars

\* the pooled population of process_dataframe
pool_app(flat) == IF Len(flat) = 0 THEN <<>> ELSE np_sort(flat)

\* the "Process file" button: process_dataframe returns the standardized and
\* the transformed table; only the transformed one is shown and offered for
\* download
AppProcess ==
    /\ entry = "app"
    /\ pc = "validated"
    /\ z' = [c \in 1..Len(df.betas) |-> standardize_app(df.betas[c])]
    /\ sorted_flat' = pool_app(dropnan(flatten(z', df.nrows)))
    /\ transformed' = [c \in 1..Len(z') |->
                        [r \in 1..df.nrows |-> transform_exc_app(z'[c][r], sorted_flat')]]
    /\ out' = <<transformed'>>
    /\ pc' = "done"
    /\ UNCHANGED <<entry, df>>
    /\ UNCHANGED rankVars

Next == Read \/ ReadError \/ MainRun \/ AppValidate \/ AppProcess

Spec == Init /\ [][Next]_vars

---------------------------------------------------------------------------
(* Claims about excel_percentrank_exc, checked under SpecRank *)

Called == rpc = "done"

N == Len(pop)

One == FromInt(1)

\* min <= q <= max of a population of at least two
InRange(p, q) == Len(p) >= 2 /\ Le(p[1], q) /\ Le(q, Last(p))

\* min < q < max of a population of at least two
Interior(p, q) == Len(p) >= 2 /\ Lt(p[1], q) /\ Lt(q, Last(p))

\* the number of population elements <= q
CountLe(p, q) == Cardinality({ i \in 1..Len(p) : Le(p[i], q) })

\* (k + (q - p[k]) / (p[k+1] - p[k])) / (n + 1) with the 1-based position k
RankAt(p, q, k) == rank_at(FAdd(FromInt(k), interpolate(q, p[k], p[k + 1])), Len(p))

TheExample == [i \in 1..5 |-> FromInt(i - 3)]

\* C1: for every ascending population of n >= 2 values and every query strictly
\* between its minimum and maximum, the rank returned is (k + fraction)/(n+1),
\* k the number of population elements <= x and fraction the position of x
\* between element k and the next; for [-2,-1,0,1,2], rank(0.5) = 3.5/6.
C1_InteriorRankIsOneBased ==
    (Called /\ Interior(pop, x)) =>
        /\ Eq(res, RankAt(pop, x, CountLe(pop, x)))
        /\ (pop = TheExample /\ x = Half(1)) => Eq(res, FDiv(Half(7), FromInt(6)))

\* C2 as stated: for every ascending population of n >= 2 values, all-equal
\* populations included, the rank of the maximum is n/(n+1).
C2_MaxRankAlways ==
    (Called /\ N >= 2 /\ Eq(x, Last(pop))) => Eq(res, FDiv(FromInt(N), FromInt(N + 1)))

\* C2 amended: for every ascending population of n >= 2 values whose minimum is
\* below its maximum (duplicates allowed) the rank of the maximum is n/(n+1);
\* when all elements are equal the minimum is matched first and the rank is
\* 1/(n+1).
C2_MaxRankUnlessAllEqual ==
    (Called /\ N >= 2 /\ Eq(x, Last(pop))) =>
        IF Eq(pop[1], Last(pop))
        THEN Eq(res, FDiv(One, FromInt(N + 1)))
        ELSE Eq(res, FDiv(FromInt(N), FromInt(N + 1)))

\* a maximum that occurs twice, above a smaller minimum, was ranked
C2_Witness ==
    /\ Called /\ N >= 3 /\ Eq(x, Last(pop))
    /\ Eq(pop[N - 1], pop[N]) /\ Lt(pop[1], pop[N])
    /\ Eq(res, FDiv(FromInt(N), FromInt(N + 1)))

\* C3: the call returns NaN exactly when the population has fewer than 2
\* elements or x is strictly below the minimum or strictly above the maximum;
\* for every other input, n >= 2 and min <= x <= max, it returns a defined
\* value strictly between 0 and 1.
C3_NaNExactlyOutside ==
    Called =>
        /\ isnan(res) <=> (N < 2 \/ Lt(x, pop[1]) \/ Gt(x, Last(pop)))
        /\ InRange(pop, x) =>
            (res # IndexError /\ ~isnan(res) /\ Lt(Zero, res) /\ Lt(res, One))

\* the minimum itself was ranked, and the rank is defined
C3_Witness ==
    Called /\ N >= 2 /\ Eq(x, pop[1]) /\ Lt(pop[1], Last(pop)) /\ ~isnan(res)

\* C4 as stated: a query at or beyond the extremes is undefined: for n >= 2 the
\* rank is NaN whenever x <= minimum or x >= maximum.
C4_EndpointsUndefined ==
    (Called /\ N >= 2 /\ (Le(x, pop[1]) \/ Le(Last(pop), x))) => isnan(res)

\* C9: for every ascending population of n >= 2 values and every x with
\* min < x < max, k = searchsorted(x, side='right') - 1 satisfies 0 <= k and
\* k+1 <= n-1 (no index past the end, no IndexError), population[k] <= x <
\* population[k+1], and the divisor population[k+1] - population[k] is strictly
\* positive.
C9_InterpolationSafe ==
    (Called /\ Interior(pop, x)) =>
        LET k == searchsorted(pop, x) - 1 IN
        /\ res # IndexError
        /\ 0 <= k
        /\ k + 1 <= N - 1
        /\ Le(At(pop, k), x)
        /\ Lt(x, At(pop, k + 1))
        /\ Lt(Zero, FSub(At(pop, k + 1), At(pop, k)))

\* an interior query that ties with two equal population elements was ranked
C9_Witness ==
    /\ Called /\ Interior(pop, x) /\ ~isnan(res)
    /\ \E i \in 1..(N - 1) : Eq(pop[i], x) /\ Eq(pop[i + 1], x)

\* C10: for a fixed ascending population of n >= 2 values the rank is monotone
\* in the query over [min, max]: x <= y gives rank(x) <= rank(y), and two
\* distinct population values a < b give rank(a) < rank(b).
C10_Monotone ==
    (Called /\ InRange(pop, x)) =>
        \A y \in Queries :
            (InRange(pop, y) /\ Le(x, y)) =>
                /\ Le(res, excel_percentrank_exc(pop, y))
                /\ ((\E i \in 1..N : Eq(pop[i], x)) /\ (\E i \in 1..N : Eq(pop[i], y))
                    /\ Lt(x, y)) => Lt(res, excel_percentrank_exc(pop, y))

---------------------------------------------------------------------------
(* Claims about the pipelines, checked under Spec *)

Done == pc = "done"

\* a table was read
Loaded == pc \in {"loaded", "validated", "failed", "done"}

Betas == df.betas

Cols == 1..Len(Betas)

Rows == 1..df.nrows

\* fewer than 2 defined values, or all defined values identical
Degenerate(vals) ==
    \/ Cardinality(Defined(vals)) < 2
    \/ \A i, j \in Defined(vals) : Eq(vals[i], vals[j])

\* C5: in both pipelines a degenerate column (fewer than 2 defined values, or
\* all defined values identical) is standardized to an all-undefined column and
\* transformed to an all-undefined column, and no error is raised: a table
\* that passed the column count runs to the end.
C5_DegenerateColumnUndefined ==
    /\ pc = "failed" => df.ncols < MinCols
    /\ Done =>
        \A c \in Cols :
            Degenerate(Betas[c]) =>
                \A r \in Rows : isnan(z[c][r]) /\ isnan(transformed[c][r])

\* C6: after a run, for every cell, the standardized cell is undefined exactly
\* when the input cell is missing or its column is degenerate, and the
\* transformed cell is undefined exactly when the standardized cell at the same
\* row and column is undefined.
C6_UndefinedPropagatesExactly ==
    Done =>
        \A c \in Cols : \A r \in Rows :
            /\ isnan(z[c][r]) <=> (isnan(Betas[c][r]) \/ Degenerate(Betas[c]))
            /\ isnan(transformed[c][r]) <=> isnan(z[c][r])
            /\ z[c][r].kind # "inf"
            /\ transformed[c][r].kind # "inf"

\* C7: a run whose input table has fewer than 3 columns fails before any
\* computation begins and produces no output, at every entry point.
C7_NarrowTableFails ==
    (Loaded /\ df.ncols < MinCols) => (pc # "done" /\ out = <<>>)

\* the decimal value of a numeric input cell, in tenths: 1 for the cell 0.1,
\* ten times the whole number a cell holds otherwise
CellTenths(v) ==
    IF v = Tenth THEN 1
    ELSE IF v.s = 0 THEN 0
    ELSE 10 * Low(Shr(v.man, -v.exp))

RECURSIVE IntSum(_, _)
IntSum(f, S) ==
    IF S = {} THEN 0
    ELSE LET i == CHOOSE j \in S : TRUE IN f[i] + IntSum(f, S \ {i})

RECURSIVE BSum(_, _)
BSum(f, S) ==
    IF S = {} THEN <<>>
    ELSE LET i == CHOOSE j \in S : TRUE IN BAdd(f[i], BSum(f, S \ {i}), 0)

\* a double agrees with a real number to this many bits when it is said to be
\* close to it (the last bits are rounding)
CloseBits == MantissaBits - 8

\* |a - b| <= unit / 2^CloseBits
Close(a, b, unit) ==
    LET diff == IF BCmp(a, b) >= 0 THEN BSub(a, b) ELSE BSub(b, a)
    IN  BCmp(Shl(diff, CloseBits), unit) <= 0

\* C8: for every column with at least 2 defined values and nonzero sample
\* standard deviation, each defined standardized value is (v - mean)/stdev with
\* mean and stdev (divisor n-1) over the defined entries only; the defined
\* values sum to 0 and their squares sum to n-1.  The code's values are
\* doubles, so each equality is up to rounding: within 2^-CloseBits, relative
\* for the values and the sum of squares, absolute for the sum.
\* The reference is computed from the decimal values of the cells (the double
\* 0.1 is within 2^-54 of one tenth), in tenths, which leaves (v - mean)/stdev
\* as it is.
\* With s the sum and n the count of the defined entries and Q the sum of the
\* (n*v - s)^2, (v - mean)/stdev is the real number (n*v - s) * sqrt((n-1)/Q):
\* a double zc of significand man and exponent exp is compared with it by its
\* square, man^2 * Q against (n*v - s)^2 * (n-1) / 2^(2*exp).
C8_StandardizedMoments ==
    Done =>
        \A c \in Cols :
            ~Degenerate(Betas[c]) =>
                LET D == Defined(Betas[c])
                    n == Cardinality(D)
                    s == IntSum([i \in D |-> CellTenths(Betas[c][i])], D)
                    dev == [i \in D |-> n * CellTenths(Betas[c][i]) - s]
                    Q == IntSum([i \in D |-> dev[i] * dev[i]], D)
                    zc == z[c]
                    NZ == { i \in D : dev[i] # 0 }
                    e0 == CHOOSE e \in { zc[i].exp : i \in NZ } :
                              \A i \in NZ : e <= zc[i].exp
                    aligned == [i \in NZ |-> Shl(zc[i].man, zc[i].exp - e0)]
                    squares == [i \in NZ |-> BMul(aligned[i], aligned[i])]
                IN  /\ \A i \in D :
                        /\ zc[i].kind = "fin"
                        /\ zc[i].s = Sign(dev[i])
                        /\ zc[i].exp <= 0
                        /\ Close(BMul(BMul(zc[i].man, zc[i].man), FromNat(Q)),
                                 Shl(FromNat(dev[i] * dev[i] * (n - 1)), -2 * zc[i].exp),
                                 Shl(FromNat(dev[i] * dev[i] * (n - 1)), -2 * zc[i].exp))
                    /\ Close(BSum(aligned, { i \in NZ : dev[i] > 0 }),
                             BSum(aligned, { i \in NZ : dev[i] < 0 }),
                             Shl(<<1>>, -e0))
                    /\ Close(BSum(squares, NZ),
                             Shl(FromNat(n - 1), -2 * e0),
                             Shl(FromNat(n - 1), -2 * e0))

\* a column with a missing entry and at least three defined values, not all
\* equal, was standardized
C8_Witness ==
    /\ Done
    /\ \E c \in Cols :
        /\ ~Degenerate(Betas[c])
        /\ Cardinality(Defined(Betas[c])) >= 3
        /\ \E r \in Rows : isnan(Betas[c][r])
        /\ \E r \in Rows : z[c][r].kind = "fin" /\ z[c][r].s # 0

=============================================================================
